---- MODULE Spec2Model ----
(***************************************************************************)
(* Version store and version manager of the meeting notes generator        *)
(* (src/version_manager.py, src/ui/version_updater.py, the delete handler  *)
(* of src/ui/version_panel.py and the note generation paths of             *)
(* src/notes_generator.py and src/ui/main_window.py), for one meeting.     *)
(*                                                                         *)
(* Spec has the calls of one thread, one after the other.  ConcurrentSpec  *)
(* has two threads, each method split into its read and its write          *)
(* (in_flight).  TwoMeetingsSpec adds the record of the second meeting id  *)
(* that the meeting list derives from the files (other_metadata).          *)
(* WhisperSpec is the loop of src/transcription.py that converts the       *)
(* segments of a Whisper result (whisper), with times as rounded floats.   *)
(* CompareSpec has compare_versions on notes files of any lines            *)
(* (notes_lines), the diff computed as difflib computes it.                *)
(*                                                                         *)
(* The metadata file of the meeting is the variable metadata, the notes    *)
(* directory is notes_files / transcript_files.  Every public method is    *)
(* one action; the reads, the auto-discovery and the writes a method makes *)
(* are part of its action.  A write of the metadata file can succeed, fail *)
(* before the file is opened, or fail after open(path, 'w') has truncated  *)
(* it (json.dump raising), which leaves an unparsable file.                *)
(*                                                                         *)
(* Fields of a version that no operation assigns after the entry is made   *)
(* (transcript paths, model, transcription_service, creation_time) are     *)
(* represented by notes_path alone.                                        *)
(***************************************************************************)
EXTENDS Integers, Sequences, FiniteSets, TLC

\* ------------------------------------------------------------------ bounds

\* Most notes files a generation event may leave in the directory.
MaxFiles == 2

\* A version number with two decimal digits, passed to the manager directly:
\* as a key "10" sorts before "2" as text and after it as a number.
TwoDigitVersion == 10

\* Version numbers the callers of the manager pass.
VersionNums == {1, 2, TwoDigitVersion}

\* ---------------------------------------------------- str() and int() of keys

\* A key of the versions dictionary is the decimal text of the version
\* number: a sequence of digits, most significant first.
RECURSIVE Str(_)
Str(n) == IF n < 10 THEN <<n>> ELSE Str(n \div 10) \o <<n % 10>>

RECURSIVE ToInt(_)
ToInt(s) == IF Len(s) = 0 THEN 0
            ELSE 10 * ToInt(SubSeq(s, 1, Len(s) - 1)) + s[Len(s)]

DigitText == <<"0", "1", "2", "3", "4", "5", "6", "7", "8", "9">>

RECURSIVE KeyText(_)
KeyText(s) == IF Len(s) = 0 THEN "" ELSE DigitText[Head(s) + 1] \o KeyText(Tail(s))

\* Text order of two keys (the order max() would use on the keys themselves).
RECURSIVE TextLess(_, _)
TextLess(a, b) ==
    IF Len(a) = 0 THEN Len(b) > 0
    ELSE IF Len(b) = 0 THEN FALSE
    ELSE IF Head(a) # Head(b) THEN Head(a) < Head(b)
    ELSE TextLess(Tail(a), Tail(b))

Keys == {Str(n) : n \in VersionNums}

\* The greatest of a non-empty set of integers: max([...]).
Max(S) == CHOOSE x \in S : \A y \in S : y <= x

\* ------------------------------------------------------------------- state

VARIABLES
    metadata,          \* the metadata file of the meeting
    notes_files,       \* version numbers of the notes files in the directory
    transcript_files,  \* version numbers of the transcript files there
    last,              \* the last call: method, how it ended, what it deleted
    in_flight,         \* per thread: the call it is in, between read and write
    other_metadata,    \* the metadata file of the meeting id <timestamp>_v2
    whisper,           \* the conversion of a Whisper result, segment by segment
    notes_lines        \* the lines of the notes files that are compared

vars ==
    <<metadata, notes_files, transcript_files, last, in_flight, other_metadata,
      whisper, notes_lines>>

\* No metadata file.
Absent == [status |-> "absent", latest_version |-> 0, versions |-> <<>>]

\* A metadata file json.load cannot parse.
Corrupt == [status |-> "corrupt", latest_version |-> 0, versions |-> <<>>]

\* _create_new_metadata: latest_version 1, no versions.
NewMetadata == [status |-> "ok", latest_version |-> 1, versions |-> <<>>]

IsRecord(md) == md.status = "ok"

\* The file name of the notes of version n: no suffix for version 1.
NotesPath(n) ==
    IF n = 1 THEN "meeting_notes.md"
    ELSE "meeting_notes_v" \o KeyText(Str(n)) \o ".md"

DefaultKeys(md) == {k \in DOMAIN md.versions : md.versions[k].is_default}

\* ------------------------------------------------------- writing the file

WriteOutcomes == {"ok", "open_fails", "dump_fails"}

\* with open(metadata_path, 'w') as f: json.dump(metadata, f)
WriteFile(cur, md, w) ==
    CASE w = "ok" -> md
      [] w = "open_fails" -> cur
      [] w = "dump_fails" -> Corrupt

\* ------------------------------------------- create_or_update_metadata

\* version_info.get(k, default)
Get(vi, k, default) == IF k \in vi.keys THEN vi[k] ELSE default

\* The greatest key in text order: max(metadata['versions'].keys()).
TextMax(S) == CHOOSE k \in S : \A j \in S : j = k \/ TextLess(j, k)

\* UpdatedMetadata with latest_version taken from the keys compared as text.
UpdatedMetadata_TextMax(cur, vi) ==
    LET md == IF IsRecord(cur) THEN cur ELSE NewMetadata
        version_num == Str(Get(vi, "version_num", 1))
        entry == [notes_path |-> Get(vi, "notes_path", "None"),
                  name |-> Get(vi, "name", "Version " \o KeyText(version_num)),
                  comments |-> Get(vi, "comments", ""),
                  is_default |-> Get(vi, "is_default", version_num = Str(1))]
        added == [k \in DOMAIN md.versions \cup {version_num} |->
                    IF k = version_num THEN entry ELSE md.versions[k]]
        versions == IF Get(vi, "set_as_default", FALSE)
                    THEN [k \in DOMAIN added |->
                            [added[k] EXCEPT !.is_default = (k = version_num)]]
                    ELSE added
    IN  [status |-> "ok",
         latest_version |-> ToInt(TextMax(DOMAIN versions)),
         versions |-> versions]

\* UpdatedMetadata whose set_as_default marks the written version and leaves
\* the flag of every other version as it was.
UpdatedMetadata_KeepsOtherDefaults(cur, vi) ==
    LET md == IF IsRecord(cur) THEN cur ELSE NewMetadata
        version_num == Str(Get(vi, "version_num", 1))
        entry == [notes_path |-> Get(vi, "notes_path", "None"),
                  name |-> Get(vi, "name", "Version " \o KeyText(version_num)),
                  comments |-> Get(vi, "comments", ""),
                  is_default |-> Get(vi, "is_default", version_num = Str(1))]
        added == [k \in DOMAIN md.versions \cup {version_num} |->
                    IF k = version_num THEN entry ELSE md.versions[k]]
        versions == IF Get(vi, "set_as_default", FALSE)
                    THEN [added EXCEPT ![version_num].is_default = TRUE]
                    ELSE added
    IN  [status |-> "ok",
         latest_version |-> Max({ToInt(k) : k \in DOMAIN versions}),
         versions |-> versions]

\* UpdatedMetadata that keeps, of an entry the record has, the name and the
\* comments that version_info does not give.
UpdatedMetadata_MergesEntry(cur, vi) ==
    LET md == IF IsRecord(cur) THEN cur ELSE NewMetadata
        version_num == Str(Get(vi, "version_num", 1))
        had == version_num \in DOMAIN md.versions
        entry == [notes_path |-> Get(vi, "notes_path", "None"),
                  name |-> IF had THEN md.versions[version_num].name
                           ELSE Get(vi, "name", "Version " \o KeyText(version_num)),
                  comments |-> IF had THEN md.versions[version_num].comments
                               ELSE Get(vi, "comments", ""),
                  is_default |-> Get(vi, "is_default", version_num = Str(1))]
        added == [k \in DOMAIN md.versions \cup {version_num} |->
                    IF k = version_num THEN entry ELSE md.versions[k]]
        versions == IF Get(vi, "set_as_default", FALSE)
                    THEN [k \in DOMAIN added |->
                            [added[k] EXCEPT !.is_default = (k = version_num)]]
                    ELSE added
    IN  [status |-> "ok",
         latest_version |-> Max({ToInt(k) : k \in DOMAIN versions}),
         versions |-> versions]

\* The record create_or_update_metadata builds from the file cur and
\* version_info, before it writes it.
UpdatedMetadata(cur, vi) ==
    LET md == IF IsRecord(cur) THEN cur ELSE NewMetadata
        version_num == Str(Get(vi, "version_num", 1))
        entry == [notes_path |-> Get(vi, "notes_path", "None"),
                  name |-> Get(vi, "name", "Version " \o KeyText(version_num)),
                  comments |-> Get(vi, "comments", ""),
                  is_default |-> Get(vi, "is_default", version_num = Str(1))]
        added == [k \in DOMAIN md.versions \cup {version_num} |->
                    IF k = version_num THEN entry ELSE md.versions[k]]
        versions == IF Get(vi, "set_as_default", FALSE)
                    THEN [k \in DOMAIN added |->
                            [added[k] EXCEPT !.is_default = (k = version_num)]]
                    ELSE added
    IN  [status |-> "ok",
         latest_version |-> Max({ToInt(k) : k \in DOMAIN versions}),
         versions |-> versions]

\* The file after create_or_update_metadata, whose write had outcome w.
CreateOrUpdate(cur, vi, w) == WriteFile(cur, UpdatedMetadata(cur, vi), w)

\* ------------------------------------------------ update_version_metadata

\* The version_info update_version_metadata passes for a notes file.
UpdaterInfo(version_num, is_default) ==
    [keys |-> {"version_num", "notes_path", "name", "is_default", "set_as_default"},
     version_num |-> version_num,
     notes_path |-> NotesPath(version_num),
     name |-> "Version " \o KeyText(Str(version_num)),
     comments |-> "",
     is_default |-> is_default,
     set_as_default |-> is_default]

\* ---------------------------------------------------------- get_metadata

\* DiscoveredInfo that asks for the version to be made the default.
DiscoveredInfo_SetsDefault(version_num) ==
    [keys |-> {"version_num", "notes_path", "is_default", "set_as_default"},
     version_num |-> version_num,
     notes_path |-> NotesPath(version_num),
     name |-> "",
     comments |-> "",
     is_default |-> TRUE,
     set_as_default |-> TRUE]

\* The version_info _auto_discover_metadata passes for a notes file.
DiscoveredInfo(version_num) ==
    [keys |-> {"version_num", "notes_path", "is_default"},
     version_num |-> version_num,
     notes_path |-> NotesPath(version_num),
     name |-> "",
     comments |-> "",
     is_default |-> (version_num = 1),
     set_as_default |-> FALSE]

\* The loop of _auto_discover_metadata over the notes files: the files the
\* metadata file can be left as, os.listdir giving the files in any order and
\* each write of create_or_update_metadata having an outcome of outcomes.
RECURSIVE DiscoverWith(_, _, _)
DiscoverWith(cur, files, outcomes) ==
    IF files = {} THEN {cur}
    ELSE UNION {DiscoverWith(CreateOrUpdate(cur, DiscoveredInfo(n), w),
                             files \ {n}, outcomes) :
                    n \in files, w \in outcomes}

\* The loop with each write having any outcome.
DiscoverStates(cur, files) == DiscoverWith(cur, files, WriteOutcomes)

\* The loop when each of its writes succeeds.
Rebuilt(files) == DiscoverWith(Absent, files, {"ok"})

\* GetMetadataOutcomes that leaves a new record without versions when
\* _auto_discover_metadata finds no file.
GetMetadataOutcomes_CreatesEmpty(cur, notes, transcripts) ==
    CASE cur.status = "ok" -> {[persisted |-> cur, kind |-> "metadata"]}
      [] cur.status = "corrupt" -> {[persisted |-> cur, kind |-> "None"]}
      [] cur.status = "absent" ->
            IF notes = {} /\ transcripts = {}
            THEN {[persisted |-> NewMetadata, kind |-> "metadata"]}
            ELSE {[persisted |-> p,
                   kind |-> CASE p.status = "ok" -> "metadata"
                              [] p.status = "corrupt" -> "None"
                              [] p.status = "absent" -> "RecursionError"] :
                    p \in DiscoverStates(cur, notes)}

\* What a get_metadata call gives: kind "metadata" (the parsed file, which is
\* then persisted), "None", or "RecursionError" when _auto_discover_metadata
\* finds files, leaves no metadata file and so re-enters get_metadata without
\* end.  A later level of that recursion that does leave a file ends as a
\* first level that leaves it does.
GetMetadataOutcomes(cur, notes, transcripts) ==
    CASE cur.status = "ok" -> {[persisted |-> cur, kind |-> "metadata"]}
      [] cur.status = "corrupt" -> {[persisted |-> cur, kind |-> "None"]}
      [] cur.status = "absent" ->
            IF notes = {} /\ transcripts = {}
            THEN {[persisted |-> cur, kind |-> "None"]}
            ELSE {[persisted |-> p,
                   kind |-> CASE p.status = "ok" -> "metadata"
                              [] p.status = "corrupt" -> "None"
                              [] p.status = "absent" -> "RecursionError"] :
                    p \in DiscoverStates(cur, notes)}

\* ------------------------------------------- the methods' changes of a record

\* WithDefault that sets the flag of the version and clears no other.
WithDefault_KeepsOthers(md, version_num) ==
    [md EXCEPT !.versions =
        [k \in DOMAIN md.versions |->
            [md.versions[k] EXCEPT !.is_default = (@ \/ k = version_num)]]]

\* set_default_version: is_default of every version is (ver == version_num).
WithDefault(md, version_num) ==
    [md EXCEPT !.versions =
        [k \in DOMAIN md.versions |->
            [md.versions[k] EXCEPT !.is_default = (k = version_num)]]]

\* Renamed that writes a fresh entry for the version, as a creation does.
Renamed_ResetsEntry(md, version_num, new_name) ==
    [md EXCEPT !.versions[version_num] =
        [notes_path |-> @.notes_path, name |-> new_name, comments |-> "",
         is_default |-> version_num = Str(1)]]

\* rename_version: metadata['versions'][version_num]['name'] = new_name
Renamed(md, version_num, new_name) ==
    [md EXCEPT !.versions[version_num].name = new_name]

\* add_comments: metadata['versions'][version_num]['comments'] = comments
Commented(md, version_num, comments) ==
    [md EXCEPT !.versions[version_num].comments = comments]

\* WithoutVersion with the remaining keys compared as text.
WithoutVersion_TextMax(md, version_num) ==
    LET was_default == md.versions[version_num].is_default
        remaining == DOMAIN md.versions \ {version_num}
        new_default == TextMax(remaining)
    IN  [status |-> "ok",
         latest_version |-> ToInt(new_default),
         versions |-> [k \in remaining |->
                        IF was_default /\ k = new_default
                        THEN [md.versions[k] EXCEPT !.is_default = TRUE]
                        ELSE md.versions[k]]]

\* WithoutVersion that makes the latest remaining version default whatever
\* the removed one was.
WithoutVersion_AlwaysNewDefault(md, version_num) ==
    LET remaining == DOMAIN md.versions \ {version_num}
        latest_version == Max({ToInt(k) : k \in remaining})
        new_default == Str(latest_version)
    IN  [status |-> "ok",
         latest_version |-> latest_version,
         versions |-> [k \in remaining |->
                        IF k = new_default
                        THEN [md.versions[k] EXCEPT !.is_default = TRUE]
                        ELSE md.versions[k]]]

\* delete_version, with a version left: the entry removed, latest_version the
\* greatest remaining number, and that version made default if the removed
\* one was.
WithoutVersion(md, version_num) ==
    LET was_default == md.versions[version_num].is_default
        remaining == DOMAIN md.versions \ {version_num}
        latest_version == Max({ToInt(k) : k \in remaining})
        new_default == Str(latest_version)
    IN  [status |-> "ok",
         latest_version |-> latest_version,
         versions |-> [k \in remaining |->
                        IF was_default /\ k = new_default
                        THEN [md.versions[k] EXCEPT !.is_default = TRUE]
                        ELSE md.versions[k]]]

\* get_default_version on a record: a version marked default, else
\* str(latest_version).  With several versions marked the method returns the
\* first in the order of the dictionary, which the record here does not keep:
\* any of them.
DefaultVersions(md) ==
    IF DefaultKeys(md) # {} THEN DefaultKeys(md) ELSE {Str(md.latest_version)}

\* ---------------------------------------------------------------- actions

\* What is kept of the last call: the method, how it ended ("metadata": it
\* returned the record; "discovered": get_metadata returned the record that
\* auto-discovery made; "version": it returned a version number; "None";
\* "raise"; a message of the panel), delete_version's was_default and the
\* key of the version it removed (no key: none removed).
Called(op, result) ==
    [op |-> op, result |-> result, was_default |-> FALSE, deleted |-> <<>>,
     diff |-> <<>>, args |-> <<>>, replaced |-> <<>>]

\* ------------------------------------------ the conversion of a Whisper result

\* Most segments of a Whisper result, and most words of a segment.
MaxSegments == 7

MaxWords == 6

\* Significant bits of a float.  Python's float has 53; the rounding of the
\* arithmetic is the same with fewer.
Precision == 4

RECURSIVE Pow2(_)
Pow2(e) == IF e = 0 THEN 1 ELSE 2 * Pow2(e - 1)

\* A time is a float: a number of units (the least positive float) with at
\* most Precision significant bits.  The spacing of the floats around the
\* number num / den: the largest power of two q with q * 2^(Precision-1)
\* at most num / den, and the unit below that.
RECURSIVE Spacing(_, _, _)
Spacing(num, den, q) ==
    IF 2 * q * Pow2(Precision - 1) * den <= num THEN Spacing(num, den, 2 * q)
    ELSE q

\* The float nearest to num / den, ties to the even one: what every
\* arithmetic operation on floats gives for its exact result num / den.
Fl(num, den) ==
    LET q == Spacing(num, den, 1)
        k == num \div (q * den)
        r == num - k * q * den
    IN  IF 2 * r < q * den THEN k * q
        ELSE IF 2 * r > q * den THEN (k + 1) * q
        ELSE IF k % 2 = 0 THEN k * q
        ELSE (k + 1) * q

\* str(x) of a time: the decimal text of the float, different for different
\* floats.
TimeStr(x) == Str(x)

\* float(text)
TimeOf(text) == ToInt(text)

\* The start and end times Whisper gives its segments.
SegmentTimes == {0, 64, 160, 224}

\* A segment of a Whisper result; words is len(text.split()).
Segments ==
    {seg \in [start : SegmentTimes, end : SegmentTimes, words : 0..MaxWords] :
        seg.start < seg.end}

\* f"spk_{current_speaker}"
SpeakerLabel(current_speaker) == <<"spk_", current_speaker>>

\* NextSpeaker that changes the speaker at every segment.
NextSpeaker_EverySegment(current_speaker, i) == (current_speaker + 1) % 2

\* current_speaker after the test of segment i: if i % 3 == 0 it becomes
\* (current_speaker + 1) % 2.
NextSpeaker(current_speaker, i) ==
    IF i % 3 = 0 THEN (current_speaker + 1) % 2 ELSE current_speaker

\* word_duration = (end_time - start_time) / max(len(words), 1)
WordDuration(segment) ==
    Fl(Fl(segment.end - segment.start, 1),
       IF segment.words = 0 THEN 1 ELSE segment.words)

\* word_start = start_time + j * word_duration
WordStart(segment, j) ==
    Fl(segment.start + Fl(j * WordDuration(segment), 1), 1)

\* word_end = word_start + word_duration
WordEnd(segment, j) == Fl(WordStart(segment, j) + WordDuration(segment), 1)

\* The items of the words of a segment, j = 0 .. len(words) - 1.
WordItems(segment, speaker_label) ==
    [k \in 1..segment.words |->
        [start_time |-> TimeStr(WordStart(segment, k - 1)),
         end_time |-> TimeStr(WordEnd(segment, k - 1)),
         speaker_label |-> speaker_label]]

\* The conversion before the first segment: current_speaker = 0, no speaker
\* segment, no item.  Of the items, those of the last segment are kept.
NoSegments ==
    [i |-> 0, current_speaker |-> 0, speaker_labels |-> <<>>,
     segment |-> [start |-> 0, end |-> 0, words |-> 0], items |-> <<>>]

\* Most segments and most words of a segment where the conversion keeps
\* every item and every speaker segment.
MaxIndexedSegments == 4

MaxIndexedWords == 2

\* SegmentItems that numbers the items of every segment from 0.
SegmentItems_FromZero(item_index, words) == [j \in 1..words |-> j - 1]

\* speaker_segments[-1]["items"] after the words of a segment: item_index is
\* appended and incremented once for every word.
SegmentItems(item_index, words) == [j \in 1..words |-> item_index + j - 1]

\* The speakers of the result, for the speaker segments made.
Speakers(speaker_segments) ==
    IF speaker_segments # <<>> THEN {SpeakerLabel(0), SpeakerLabel(1)} ELSE {}

\* The conversion before the first segment, keeping of every speaker segment
\* its label and its item indices, and of every item its speaker label.
NoItems ==
    [i |-> 0, current_speaker |-> 0, speaker_segments |-> <<>>, items |-> <<>>,
     item_index |-> 0]

\* The threads that call the manager: the user interface, and the thread
\* that a regeneration or a re-transcription starts.
Threads == {"ui", "worker"}

\* A thread that is in no call.
Idle == [pc |-> "idle", op |-> "none", n |-> 0, metadata |-> Absent, result |-> "None",
     wrote |-> FALSE]

Init ==
    /\ metadata = Absent
    /\ notes_files = {}
    /\ transcript_files = {}
    /\ last = Called("init", "None")
    /\ in_flight = [t \in Threads |-> Idle]
    /\ other_metadata = Absent
    /\ whisper = NoSegments
    /\ notes_lines = <<>>

\* get_metadata(meeting_id)
GetMetadata ==
    \E g \in GetMetadataOutcomes(metadata, notes_files, transcript_files) :
        /\ metadata' = g.persisted
        /\ last' = Called("get_metadata",
                          IF metadata.status = "absent" /\ g.kind = "metadata"
                          THEN "discovered" ELSE g.kind)
        /\ UNCHANGED <<notes_files, transcript_files>>

\* A version_info of a direct caller: version_num and notes_path, and of
\* is_default and set_as_default the keys in flags.
DirectInfo(n, flags, is_default) ==
    [keys |-> flags \cup {"version_num", "notes_path"},
     version_num |-> n,
     notes_path |-> NotesPath(n),
     name |-> "",
     comments |-> "",
     is_default |-> is_default,
     set_as_default |-> TRUE]

\* The version_info dictionaries a direct caller passes.
VersionInfos ==
    {DirectInfo(n, {}, FALSE) : n \in VersionNums}
    \cup {DirectInfo(n, {"set_as_default"}, FALSE) : n \in VersionNums}
    \cup {DirectInfo(n, {"is_default"}, d) : n \in VersionNums, d \in BOOLEAN}
    \cup {DirectInfo(n, {"is_default", "set_as_default"}, TRUE) : n \in VersionNums}

\* create_or_update_metadata(meeting_id, version_info): a failed write is
\* logged and the record is returned all the same.
CreateOrUpdateMetadataCall(vi) ==
    \E w \in WriteOutcomes :
        /\ metadata' = CreateOrUpdate(metadata, vi, w)
        /\ last' = Called("create_or_update_metadata", "metadata")
        /\ UNCHANGED <<notes_files, transcript_files>>

CreateOrUpdateMetadata == \E vi \in VersionInfos : CreateOrUpdateMetadataCall(vi)

\* A method that starts with get_metadata, here with outcome g, and returns
\* None without a record; on a record it writes the record changed when
\* saves, and returns the record.  A failed write is not caught.
ManagerCall(op, g, saves, changed) ==
    /\ UNCHANGED <<notes_files, transcript_files>>
    /\ \/ /\ g.kind = "RecursionError"
          /\ metadata' = g.persisted
          /\ last' = Called(op, "raise")
       \/ /\ g.kind = "None"
          /\ metadata' = g.persisted
          /\ last' = Called(op, "None")
       \/ /\ g.kind = "metadata"
          /\ ~saves
          /\ metadata' = g.persisted
          /\ last' = Called(op, "metadata")
       \/ /\ g.kind = "metadata"
          /\ saves
          /\ \E w \in WriteOutcomes :
                /\ metadata' = WriteFile(g.persisted, changed, w)
                /\ last' = Called(op, IF w = "ok" THEN "metadata" ELSE "raise")

\* set_default_version(meeting_id, version_num)
SetDefaultVersionCall(n) ==
    \E g \in GetMetadataOutcomes(metadata, notes_files, transcript_files) :
        ManagerCall("set_default_version", g, TRUE, WithDefault(g.persisted, Str(n)))

SetDefaultVersion == \E n \in VersionNums : SetDefaultVersionCall(n)

\* The version the user renames and annotates, the name and the comment.
EditedNums == {1}

Names == {"Kickoff"}

Comments == {"reviewed"}

\* rename_version(meeting_id, version_num, new_name)
RenameVersionCall(n, new_name) ==
    \E g \in GetMetadataOutcomes(metadata, notes_files, transcript_files) :
        ManagerCall("rename_version", g, Str(n) \in DOMAIN g.persisted.versions,
                    Renamed(g.persisted, Str(n), new_name))

RenameVersion == \E n \in EditedNums, new_name \in Names : RenameVersionCall(n, new_name)

\* add_comments(meeting_id, version_num, comments)
AddCommentsCall(n, comments) ==
    \E g \in GetMetadataOutcomes(metadata, notes_files, transcript_files) :
        ManagerCall("add_comments", g, Str(n) \in DOMAIN g.persisted.versions,
                    Commented(g.persisted, Str(n), comments))

AddComments == \E n \in EditedNums, comments \in Comments : AddCommentsCall(n, comments)

\* get_default_version(meeting_id), returning version ver, None, or raising.
GetDefaultVersionCall(ver) ==
    \E g \in GetMetadataOutcomes(metadata, notes_files, transcript_files) :
        /\ metadata' = g.persisted
        /\ UNCHANGED <<notes_files, transcript_files>>
        /\ \/ /\ g.kind = "RecursionError"
              /\ last' = Called("get_default_version", "raise")
           \/ /\ g.kind = "None"
              /\ last' = Called("get_default_version", "None")
           \/ /\ g.kind = "metadata"
              /\ ver \in DefaultVersions(g.persisted)
              /\ last' = Called("get_default_version", "version")

GetDefaultVersion == \E ver \in Keys : GetDefaultVersionCall(ver)

\* DeleteFrom that returns None for the last version without removing the file.
DeleteFrom_KeepsFile(op, md, key) ==
    IF key \notin DOMAIN md.versions
    THEN /\ metadata' = md
         /\ last' = Called(op, "metadata")
    ELSE IF DOMAIN md.versions = {key}
    THEN /\ metadata' = md
         /\ last' = [Called(op, "None")
                        EXCEPT !.was_default = md.versions[key].is_default,
                               !.deleted = key]
    ELSE \E w \in WriteOutcomes :
            /\ metadata' = WriteFile(md, WithoutVersion(md, key), w)
            /\ last' = [Called(op, IF w = "ok" THEN "metadata" ELSE "raise")
                            EXCEPT !.was_default = md.versions[key].is_default,
                                   !.deleted = IF w = "ok" THEN key ELSE <<>>]

\* DeleteFrom that writes the record without versions when the last one goes.
DeleteFrom_WritesEmptyShell(op, md, key) ==
    IF key \notin DOMAIN md.versions
    THEN /\ metadata' = md
         /\ last' = Called(op, "metadata")
    ELSE /\ metadata' = [md EXCEPT !.latest_version = 0,
                                   !.versions = [k \in DOMAIN md.versions \ {key} |->
                                                    md.versions[k]]]
         /\ last' = [Called(op, "metadata")
                        EXCEPT !.was_default = md.versions[key].is_default,
                               !.deleted = key]

\* delete_version on the record md of the file: the file and the call after it.
DeleteFrom(op, md, key) ==
    IF key \notin DOMAIN md.versions
    THEN /\ metadata' = md
         /\ last' = Called(op, "metadata")
    ELSE IF DOMAIN md.versions = {key}
    THEN \* os.remove(metadata_path), which can fail
         \/ /\ metadata' = Absent
            /\ last' = [Called(op, "None")
                            EXCEPT !.was_default = md.versions[key].is_default,
                                   !.deleted = key]
         \/ /\ metadata' = md
            /\ last' = [Called(op, "raise")
                            EXCEPT !.was_default = md.versions[key].is_default]
    ELSE \E w \in WriteOutcomes :
            /\ metadata' = WriteFile(md, WithoutVersion(md, key), w)
            /\ last' = [Called(op, IF w = "ok" THEN "metadata" ELSE "raise")
                            EXCEPT !.was_default = md.versions[key].is_default,
                                   !.deleted = IF w = "ok" THEN key ELSE <<>>]

\* DeleteVersionCall that also removes the notes file of the version.
DeleteVersionCall_RemovesNotes(n) ==
    \E g \in GetMetadataOutcomes(metadata, notes_files, transcript_files) :
        /\ notes_files' = notes_files \ {n}
        /\ UNCHANGED transcript_files
        /\ \/ /\ g.kind = "RecursionError"
              /\ metadata' = g.persisted
              /\ last' = Called("delete_version", "raise")
           \/ /\ g.kind = "None"
              /\ metadata' = g.persisted
              /\ last' = Called("delete_version", "None")
           \/ /\ g.kind = "metadata"
              /\ DeleteFrom("delete_version", g.persisted, Str(n))

\* delete_version(meeting_id, version_num)
DeleteVersionCall(n) ==
    \E g \in GetMetadataOutcomes(metadata, notes_files, transcript_files) :
        /\ UNCHANGED <<notes_files, transcript_files>>
        /\ \/ /\ g.kind = "RecursionError"
              /\ metadata' = g.persisted
              /\ last' = Called("delete_version", "raise")
           \/ /\ g.kind = "None"
              /\ metadata' = g.persisted
              /\ last' = Called("delete_version", "None")
           \/ /\ g.kind = "metadata"
              /\ DeleteFrom("delete_version", g.persisted, Str(n))

DeleteVersion == \E n \in VersionNums : DeleteVersionCall(n)

\* _delete_selected_version of the version panel, for the version selected in
\* the list (a list loaded earlier: the version may be gone by now).  It
\* refuses when the meeting has at most one version, and the user can cancel.
DeleteSelectedVersionCall(n) ==
    \E g \in GetMetadataOutcomes(metadata, notes_files, transcript_files) :
        /\ UNCHANGED <<notes_files, transcript_files>>
        /\ \/ /\ g.kind = "RecursionError"
              /\ metadata' = g.persisted
              /\ last' = Called("_delete_selected_version", "raise")
           \/ /\ g.kind = "None"
              /\ metadata' = g.persisted
              /\ last' = Called("_delete_selected_version", "None")
           \/ /\ g.kind = "metadata"
              /\ Cardinality(DOMAIN g.persisted.versions) <= 1
              /\ metadata' = g.persisted
              /\ last' = Called("_delete_selected_version",
                                "Cannot delete the only version")
           \/ /\ g.kind = "metadata"
              /\ Cardinality(DOMAIN g.persisted.versions) > 1
              /\ \/ /\ metadata' = g.persisted
                    /\ last' = Called("_delete_selected_version", "cancelled")
                 \/ DeleteFrom("_delete_selected_version", g.persisted, Str(n))

DeleteSelectedVersion == \E n \in VersionNums : DeleteSelectedVersionCall(n)

\* ------------------------------------------------ transcription results

Engines == {"aws", "whisper"}

\* The text of the transcript that transcribe_audio substitutes.
Sentinel == "No transcript content available"

\* The lists a raw result can have under results.transcripts: empty, an item
\* without the key 'transcript', an item with an empty text, one with text.
TranscriptLists ==
    {<<>>,
     <<[keys |-> {}, transcript |-> ""]>>,
     <<[keys |-> {"transcript"}, transcript |-> ""]>>,
     <<[keys |-> {"transcript"}, transcript |-> "words"]>>}

\* What AWS Transcribe gives: a failed job, or the JSON of a completed job,
\* with or without the keys 'results' and 'transcripts'.
AwsResults ==
    {[job_status |-> "FAILED", keys |-> {}, transcripts |-> <<>>],
     [job_status |-> "COMPLETED", keys |-> {}, transcripts |-> <<>>],
     [job_status |-> "COMPLETED", keys |-> {"results"}, transcripts |-> <<>>]}
    \cup {[job_status |-> "COMPLETED", keys |-> {"results", "transcripts"},
           transcripts |-> t] : t \in TranscriptLists}

\* What the Whisper model gives: a result with or without the key 'text'.
WhisperResults ==
    {[job_status |-> "COMPLETED", keys |-> {}, transcripts |-> <<>>]}
    \cup {[job_status |-> "COMPLETED", keys |-> {"text"},
           transcripts |-> <<[keys |-> {"transcript"}, transcript |-> text]>>] :
                text \in {"", "words"}}

RawResults(engine) == IF engine = "aws" THEN AwsResults ELSE WhisperResults

\* The transcript that stands for a result of unexpected format.
Placeholder ==
    [kind |-> "json",
     transcripts |-> <<[keys |-> {"transcript"}, transcript |-> Sentinel]>>]

\* AWSHandler.transcribe_audio and WhisperTranscription.transcribe on a raw
\* result: the transcript JSON in the format of AWS Transcribe, None, or an
\* exception (result["text"] of a result without the key, re-raised).
Transcribe(engine, raw) ==
    IF engine = "aws"
    THEN IF raw.job_status # "COMPLETED"
         THEN [kind |-> "None", transcripts |-> <<>>]
         ELSE IF "results" \notin raw.keys \/ "transcripts" \notin raw.keys
         THEN Placeholder
         ELSE [kind |-> "json", transcripts |-> raw.transcripts]
    ELSE IF "text" \notin raw.keys
         THEN [kind |-> "raise", transcripts |-> <<>>]
         ELSE [kind |-> "json", transcripts |-> raw.transcripts]

\* transcript_json['results']['transcripts'][0]['transcript'] raises.
ExtractRaises(transcript_json) ==
    \/ Len(transcript_json.transcripts) = 0
    \/ "transcript" \notin transcript_json.transcripts[1].keys

\* transcript_json['results']['transcripts'][0]['transcript']
ExtractText(transcript_json) == transcript_json.transcripts[1].transcript

\* ------------------------------------------------------ generation events

\* _process_recording with the engine's raw result raw: process_recording
\* transcribes (an exception or None ends it with nothing saved), saves the
\* transcript JSON, extracts the text (an exception ends it), saves the text
\* and, if the generator gave notes, the unsuffixed notes file; then
\* _process_recording, if it got notes and a non-empty transcript text, has
\* update_version_metadata(..., is_default=True) record version 1.
ProcessRecordingCall(engine, raw, notes_content) ==
    LET transcript_json == Transcribe(engine, raw)
    IN  IF transcript_json.kind # "json"
        THEN /\ UNCHANGED <<transcript_files, notes_files, metadata>>
             /\ last' = Called("_process_recording", "Failed to process recording")
        ELSE /\ transcript_files' = transcript_files \cup {1}
             /\ IF ExtractRaises(transcript_json)
                THEN /\ UNCHANGED <<notes_files, metadata>>
                     /\ last' = Called("_process_recording",
                                       "Failed to process recording")
                ELSE IF ~notes_content
                THEN /\ UNCHANGED <<notes_files, metadata>>
                     /\ last' = Called("_process_recording", "None")
                ELSE /\ notes_files' = notes_files \cup {1}
                     /\ IF ExtractText(transcript_json) # ""
                        THEN /\ \E w \in WriteOutcomes :
                                    metadata' = CreateOrUpdate(metadata,
                                                    UpdaterInfo(1, TRUE), w)
                             /\ last' = Called("_process_recording", "metadata")
                        ELSE /\ UNCHANGED metadata
                             /\ last' = Called("_process_recording",
                                               "Failed to process recording")

ProcessRecording ==
    \E engine \in Engines, notes_content \in BOOLEAN :
        \E raw \in RawResults(engine) : ProcessRecordingCall(engine, raw, notes_content)

\* The version retry_notes_generation writes: the unsuffixed file if there is
\* none, else the number of notes files of the meeting plus one.
RetryVersion(notes) == IF 1 \notin notes THEN 1 ELSE Cardinality(notes) + 1

\* _regenerate_notes, for a meeting that has a transcript:
\* retry_notes_generation writes the notes file if the generator gave notes,
\* then update_version_metadata(..., is_default=True) records its version.
RegenerateNotes ==
    \E notes_content \in BOOLEAN, w \in WriteOutcomes :
        /\ transcript_files # {}
        /\ Cardinality(notes_files) < MaxFiles
        /\ UNCHANGED transcript_files
        /\ IF notes_content
           THEN LET version == RetryVersion(notes_files)
                IN  /\ notes_files' = notes_files \cup {version}
                    /\ metadata' = CreateOrUpdate(metadata, UpdaterInfo(version, TRUE), w)
                    /\ last' = Called("_regenerate_notes", "metadata")
           ELSE /\ UNCHANGED <<notes_files, metadata>>
                /\ last' = Called("_regenerate_notes", "None")

\* The version _retranscribe_meeting writes: the number of transcript JSON
\* files of the meeting plus one.
RetranscribeVersion(transcripts) == Cardinality(transcripts) + 1

\* _retranscribe_meeting, transcribe_thread, with the engine's raw result
\* raw: an exception or no transcription result ends it with an error
\* message.  With a result it saves the transcript JSON under the version
\* number, extracts the text (an exception ends it), saves the text,
\* generates the notes and opens the notes file of that version for writing;
\* f.write(notes_content) raises when the generator gave None, which leaves
\* the file opened (created or truncated) and no metadata entry; else
\* update_version_metadata(..., is_default=True) records the version.
RetranscribeMeetingCall(engine, raw, notes_content) ==
    LET transcript_json == Transcribe(engine, raw)
        version_num == RetranscribeVersion(transcript_files)
    IN  /\ Cardinality(transcript_files) < MaxFiles
        /\ IF transcript_json.kind # "json"
           THEN /\ UNCHANGED <<transcript_files, notes_files, metadata>>
                /\ last' = Called("_retranscribe_meeting",
                                  IF transcript_json.kind = "None"
                                  THEN "None" ELSE "no transcript")
           ELSE /\ transcript_files' = transcript_files \cup {version_num}
                /\ IF ExtractRaises(transcript_json)
                   THEN /\ UNCHANGED <<notes_files, metadata>>
                        /\ last' = Called("_retranscribe_meeting", "no transcript")
                   ELSE /\ notes_files' = notes_files \cup {version_num}
                        /\ IF notes_content
                           THEN /\ \E w \in WriteOutcomes :
                                    metadata' = CreateOrUpdate(metadata,
                                                    UpdaterInfo(version_num, TRUE), w)
                                /\ last' = Called("_retranscribe_meeting", "metadata")
                           ELSE /\ UNCHANGED metadata
                                /\ last' = Called("_retranscribe_meeting", "raise")

RetranscribeMeeting ==
    \E engine \in Engines, notes_content \in BOOLEAN :
        \E raw \in RawResults(engine) :
            RetranscribeMeetingCall(engine, raw, notes_content)

\* ------------------------------------------- meeting ids from file names

\* A file name is the sequence of its parts.  The timestamp of the meeting,
\* YYYYMMDD_HHMMSS, is its meeting id.
Timestamp == <<"20240315", "_", "093000">>

\* The parts \d+ matches.
Digits == {"20240315", "093000"} \cup {KeyText(Str(n)) : n \in 1..(MaxFiles + 1)}

\* The version suffix of a file name: none for version 1.
Suffix(n) == IF n = 1 THEN <<>> ELSE <<"_v", KeyText(Str(n))>>

\* meeting_notes_<ts>[_v<n>].md
NotesFileName(n) == <<"meeting_notes_">> \o Timestamp \o Suffix(n) \o <<".md">>

\* transcript_<ts>[_v<n>].json
TranscriptFileName(n) == <<"transcript_">> \o Timestamp \o Suffix(n) \o <<".json">>

\* file.replace(part, "")
Replace(file, part) == SelectSeq(file, LAMBDA p : p # part)

\* _get_all_meetings (and retry_notes_generation) on a transcript JSON file:
\* file.replace("transcript_", "").replace(".json", "")
TranscriptMeetingId(file) == Replace(Replace(file, "transcript_"), ".json")

\* _get_all_meetings on a notes file: group 1 of
\* meeting_notes_(\d+_\d+)(?:_v(\d+))?\.md, or no match (the file is skipped).
NotesMeetingId(file) ==
    IF /\ Len(file) >= 5
       /\ file[1] = "meeting_notes_"
       /\ file[2] \in Digits /\ file[3] = "_" /\ file[4] \in Digits
       /\ \/ file[5] = ".md"
          \/ Len(file) >= 7 /\ file[5] = "_v" /\ file[6] \in Digits /\ file[7] = ".md"
    THEN SubSeq(file, 2, 4)
    ELSE <<>>

\* ------------------------------------------------ json.dump and json.load

\* The metadata file is JSON text; a JSON value is its token: a string, a
\* number in decimal digits, true, false or null.  None is written null.
JsonString(s) == IF s = "None" THEN <<"null">> ELSE <<"string", s>>

JsonBool(b) == IF b THEN <<"true">> ELSE <<"false">>

JsonNumber(n) == <<"number", Str(n)>>

\* LoadBool that takes a token for true when there is one.
LoadBool_Truthy(token) == token # <<>>

LoadString(token) == IF token = <<"null">> THEN "None" ELSE token[2]

LoadBool(token) == token = <<"true">>

LoadNumber(token) == ToInt(token[2])

\* The keys a versions dictionary can have, and the key a text is of.
KeySpace == {Str(n) : n \in 0..(TwoDigitVersion + 1)}

KeyOf(text) == CHOOSE k \in KeySpace : KeyText(k) = text

\* json.dump(metadata, f): an object is the set of its members, a member the
\* pair of its name and its value.
DumpEntry(entry) ==
    [notes_path |-> JsonString(entry.notes_path),
     name |-> JsonString(entry.name),
     comments |-> JsonString(entry.comments),
     is_default |-> JsonBool(entry.is_default)]

Dump(md) ==
    [latest_version |-> JsonNumber(md.latest_version),
     versions |-> {<<KeyText(k), DumpEntry(md.versions[k])>> : k \in DOMAIN md.versions}]

\* json.load(f)
LoadEntry(member) ==
    [notes_path |-> LoadString(member.notes_path),
     name |-> LoadString(member.name),
     comments |-> LoadString(member.comments),
     is_default |-> LoadBool(member.is_default)]

Load(json) ==
    [status |-> "ok",
     latest_version |-> LoadNumber(json.latest_version),
     versions |-> [k \in {KeyOf(p[1]) : p \in json.versions} |->
                    LoadEntry((CHOOSE p \in json.versions : KeyOf(p[1]) = k)[2])]]

\* --------------------------------------------------------- compare_versions

\* Most lines of a notes file, and the lines there are.
MaxLines == 2

Lines == {"a", "b"}

\* f.readlines() of a notes file.
Contents == UNION {[1..n -> Lines] : n \in 0..MaxLines}

\* Lines of context around a change: the default n of difflib.unified_diff.
ContextLines == 3

\* The length of the run of equal lines from a[i] and b[j] (counted from 0)
\* within a[:ahi] and b[:bhi].
RECURSIVE RunLength(_, _, _, _, _, _)
RunLength(a, b, i, j, ahi, bhi) ==
    IF i < ahi /\ j < bhi /\ a[i + 1] = b[j + 1]
    THEN 1 + RunLength(a, b, i + 1, j + 1, ahi, bhi)
    ELSE 0

\* SequenceMatcher.find_longest_match: the longest block a[i:i+k] == b[j:j+k]
\* within a[alo:ahi] and b[blo:bhi]; of the longest blocks the one that
\* starts earliest in a, and of those the one that starts earliest in b.
FindLongestMatch(a, b, alo, ahi, blo, bhi) ==
    LET starts == (alo..(ahi - 1)) \X (blo..(bhi - 1))
        k(s) == RunLength(a, b, s[1], s[2], ahi, bhi)
        longest == {s \in starts : \A t \in starts : k(t) <= k(s)}
        first == {s \in longest : \A t \in longest :
                    s[1] < t[1] \/ (s[1] = t[1] /\ s[2] <= t[2])}
    IN  IF starts = {} THEN [i |-> alo, j |-> blo, k |-> 0]
        ELSE LET s == CHOOSE s \in first : TRUE
             IN  IF k(s) = 0 THEN [i |-> alo, j |-> blo, k |-> 0]
                 ELSE [i |-> s[1], j |-> s[2], k |-> k(s)]

\* SequenceMatcher.get_matching_blocks: the longest match, then the blocks
\* to its left and to its right, in order.
RECURSIVE MatchingBlocks(_, _, _, _, _, _)
MatchingBlocks(a, b, alo, ahi, blo, bhi) ==
    LET m == FindLongestMatch(a, b, alo, ahi, blo, bhi)
    IN  IF m.k = 0 THEN <<>>
        ELSE (IF alo < m.i /\ blo < m.j
              THEN MatchingBlocks(a, b, alo, m.i, blo, m.j) ELSE <<>>)
             \o <<m>>
             \o (IF m.i + m.k < ahi /\ m.j + m.k < bhi
                 THEN MatchingBlocks(a, b, m.i + m.k, ahi, m.j + m.k, bhi)
                 ELSE <<>>)

\* The lines x[lo:hi] of a diff under a tag: ' ', '-' or '+'.
Tagged(tag, x, lo, hi) == [n \in 1..(hi - lo) |-> [tag |-> tag, line |-> x[lo + n]]]

\* The lines of the opcodes from a[i:] and b[j:]: before each matching block
\* the lines of a that are replaced or deleted, then the lines of b that
\* replace them or are inserted, then the block as context.
RECURSIVE OpcodeLines(_, _, _, _, _)
OpcodeLines(a, b, blocks, i, j) ==
    IF blocks = <<>>
    THEN Tagged("-", a, i, Len(a)) \o Tagged("+", b, j, Len(b))
    ELSE LET m == Head(blocks)
         IN  Tagged("-", a, i, m.i) \o Tagged("+", b, j, m.j)
             \o Tagged(" ", a, m.i, m.i + m.k)
             \o OpcodeLines(a, b, Tail(blocks), m.i + m.k, m.j + m.k)

\* The lines before the first change and after the last one.
RECURSIVE Leading(_)
Leading(body) ==
    IF body = <<>> \/ Head(body).tag # " " THEN 0 ELSE 1 + Leading(Tail(body))

RECURSIVE Trailing(_)
Trailing(body) ==
    IF body = <<>> \/ body[Len(body)].tag # " " THEN 0
    ELSE 1 + Trailing(SubSeq(body, 1, Len(body) - 1))

\* get_grouped_opcodes: of the context before the first change and after the
\* last one, the ContextLines lines next to the change are kept.  (The files
\* are too short for a run of context to split the diff.)
Hunk(body) ==
    LET lead == Leading(body)
        trail == Trailing(body)
        from == IF lead > ContextLines THEN lead - ContextLines + 1 ELSE 1
        to == IF trail > ContextLines THEN Len(body) - (trail - ContextLines)
              ELSE Len(body)
    IN  SubSeq(body, from, to)

\* list(difflib.unified_diff(a, b, fromfile, tofile, lineterm='')): nothing
\* for equal files; else the two file lines, the @@ line and the hunk.
UnifiedDiff(a, b, fromfile, tofile) ==
    LET body == OpcodeLines(a, b, MatchingBlocks(a, b, 0, Len(a), 0, Len(b)), 0, 0)
    IN  IF \A n \in DOMAIN body : body[n].tag = " " THEN <<>>
        ELSE <<[tag |-> "---", line |-> fromfile],
               [tag |-> "+++", line |-> tofile],
               [tag |-> "@@", line |-> ""]>> \o Hunk(body)

\* Compared that does not test the notes paths and compares what it finds.
Compared_IgnoresNotesPath(md, notes, content, version1, version2) ==
    LET v1 == Str(version1)
        v2 == Str(version2)
    IN  IF ~IsRecord(md) THEN [kind |-> "None", diff |-> <<>>]
        ELSE IF v1 \notin DOMAIN md.versions \/ v2 \notin DOMAIN md.versions
        THEN [kind |-> "None", diff |-> <<>>]
        ELSE [kind |-> "diff", diff |-> <<>>]

\* What compare_versions returns on the record md: None without the record,
\* without one of the versions, without one of the notes paths or when a
\* notes file cannot be read; else the diff of the two files.
Compared(md, notes, content, version1, version2) ==
    LET v1 == Str(version1)
        v2 == Str(version2)
    IN  IF ~IsRecord(md) THEN [kind |-> "None", diff |-> <<>>]
        ELSE IF v1 \notin DOMAIN md.versions \/ v2 \notin DOMAIN md.versions
        THEN [kind |-> "None", diff |-> <<>>]
        ELSE IF md.versions[v1].notes_path = "None" \/ md.versions[v2].notes_path = "None"
        THEN [kind |-> "None", diff |-> <<>>]
        ELSE IF version1 \notin notes \/ version2 \notin notes
        THEN [kind |-> "None", diff |-> <<>>]
        ELSE [kind |-> "diff",
              diff |-> UnifiedDiff(content[version1], content[version2],
                                   "Version " \o KeyText(v1), "Version " \o KeyText(v2))]

\* compare_versions(meeting_id, version1, version2)
CompareVersionsCall(version1, version2) ==
    \E g \in GetMetadataOutcomes(metadata, notes_files, transcript_files) :
        LET c == Compared(g.persisted, notes_files, notes_lines, version1, version2)
        IN  /\ metadata' = g.persisted
            /\ last' = [Called("compare_versions",
                               IF g.kind = "RecursionError" THEN "raise" ELSE c.kind)
                            EXCEPT !.diff = c.diff, !.args = <<version1, version2>>]
            /\ UNCHANGED <<notes_files, transcript_files>>

CompareVersions == \E version1 \in VersionNums, version2 \in VersionNums :
    CompareVersionsCall(version1, version2)

\* A version_info with the version number alone.
BareInfo(n) ==
    [keys |-> {"version_num"},
     version_num |-> n,
     notes_path |-> "None",
     name |-> "",
     comments |-> "",
     is_default |-> FALSE,
     set_as_default |-> FALSE]

\* create_or_update_metadata(meeting_id, {'version_num': 2})
CreateWithoutNotesPath == CreateOrUpdateMetadataCall(BareInfo(2))

\* The calls of one meeting, one after the other: no call is between its
\* read and its write when another starts, and no other meeting id is used.
Sequential == UNCHANGED <<in_flight, other_metadata, whisper, notes_lines>>

Next ==
    \/ GetMetadata /\ Sequential
    \/ CreateOrUpdateMetadata /\ Sequential
    \/ SetDefaultVersion /\ Sequential
    \/ RenameVersion /\ Sequential
    \/ AddComments /\ Sequential
    \/ GetDefaultVersion /\ Sequential
    \/ DeleteVersion /\ Sequential
    \/ DeleteSelectedVersion /\ Sequential
    \/ ProcessRecording /\ Sequential
    \/ RegenerateNotes /\ Sequential
    \/ RetranscribeMeeting /\ Sequential

Spec == Init /\ [][Next]_vars

\* ------------------------------------------- two calls on the same meeting

\* The mutating calls two threads make at the same time on a meeting whose
\* recording has been processed: the worker records version 2, the user
\* makes version 1 the default, renames it, annotates it or deletes it.
Requests ==
    {[op |-> "create_or_update_metadata", n |-> 2],
     [op |-> "set_default_version", n |-> 1],
     [op |-> "rename_version", n |-> 1],
     [op |-> "add_comments", n |-> 1],
     [op |-> "delete_version", n |-> 1]}

\* The call of request req as thread t starts it, having read record md.
Reading(req, md) ==
    [pc |-> "read", op |-> req.op, n |-> req.n, metadata |-> md, result |-> "None",
     wrote |-> FALSE]

\* The call after it has ended.
Ended(call, result) == [call EXCEPT !.pc = "done", !.result = result]

\* The call after it has ended having changed the metadata file.
Wrote(call, result) == [Ended(call, result) EXCEPT !.wrote = TRUE]

\* The first half of a mutating method: create_or_update_metadata loads the
\* metadata file (a new record if there is none or it cannot be parsed), the
\* other methods call get_metadata and return None without a record.
ReadStep(t, req) ==
    /\ in_flight[t].pc = "idle"
    /\ UNCHANGED <<notes_files, transcript_files, last, other_metadata, whisper,
                   notes_lines>>
    /\ IF req.op = "create_or_update_metadata"
       THEN /\ UNCHANGED metadata
            /\ in_flight' = [in_flight EXCEPT ![t] = Reading(req, metadata)]
       ELSE \E g \in GetMetadataOutcomes(metadata, notes_files, transcript_files) :
                /\ metadata' = g.persisted
                /\ in_flight' = [in_flight EXCEPT ![t] =
                        CASE g.kind = "metadata" -> Reading(req, g.persisted)
                          [] g.kind = "None" -> Ended(Reading(req, g.persisted), "None")
                          [] g.kind = "RecursionError" ->
                                Ended(Reading(req, g.persisted), "raise")]

\* Basis that is the metadata file as it is when the thread writes.
Basis_Reread(t) == metadata

\* The record a method changes and writes back: the one it read.
Basis(t) == in_flight[t].metadata

\* The method writes the metadata file (or removes it).
Saves(call, md) ==
    CASE call.op \in {"rename_version", "add_comments", "delete_version"} ->
            Str(call.n) \in DOMAIN md.versions
      [] OTHER -> TRUE

\* What the method makes of the record md it read: the content it gives the
\* metadata file (Absent: it removes the file).
ChangedRecord(call, md) ==
    CASE call.op = "create_or_update_metadata" ->
            UpdatedMetadata(md, UpdaterInfo(call.n, TRUE))
      [] call.op = "set_default_version" -> WithDefault(md, Str(call.n))
      [] call.op = "rename_version" -> Renamed(md, Str(call.n), "Kickoff")
      [] call.op = "add_comments" -> Commented(md, Str(call.n), "reviewed")
      [] call.op = "delete_version" ->
            IF DOMAIN md.versions = {Str(call.n)} THEN Absent
            ELSE WithoutVersion(md, Str(call.n))

\* The second half of the method: it changes the record it read and writes
\* it over the metadata file, whatever the file holds by then.
WriteStep(t) ==
    LET call == in_flight[t]
        md == Basis(t)
    IN  /\ call.pc = "read"
        /\ UNCHANGED <<notes_files, transcript_files, last, other_metadata, whisper,
                   notes_lines>>
        /\ IF ~Saves(call, md)
           THEN /\ UNCHANGED metadata
                /\ in_flight' = [in_flight EXCEPT ![t] = Ended(call, "metadata")]
           ELSE IF ChangedRecord(call, md) = Absent
           THEN \* os.remove(metadata_path), which fails if the file is gone
                IF metadata = Absent
                THEN /\ UNCHANGED metadata
                     /\ in_flight' = [in_flight EXCEPT ![t] = Ended(call, "raise")]
                ELSE /\ metadata' = Absent
                     /\ in_flight' = [in_flight EXCEPT ![t] = Wrote(call, "None")]
           ELSE \E w \in WriteOutcomes :
                    /\ metadata' = WriteFile(metadata, ChangedRecord(call, md), w)
                    /\ in_flight' = [in_flight EXCEPT ![t] =
                            IF w = "ok" THEN Wrote(call, "metadata")
                            ELSE IF call.op = "create_or_update_metadata"
                            THEN Ended(call, "metadata")
                            ELSE Ended(call, "raise")]

\* The record after the generation events of versions 1 to k, each recorded
\* by update_version_metadata(..., is_default=True).
RECURSIVE Generated(_)
Generated(k) ==
    IF k = 0 THEN Absent
    ELSE UpdatedMetadata(Generated(k - 1), UpdaterInfo(k, TRUE))

\* The meeting after its recording has been processed and its notes
\* regenerated some times; no thread is in a call.
ConcurrentInit ==
    /\ \E k \in 1..MaxFiles :
            /\ notes_files = 1..k
            /\ metadata = Generated(k)
    /\ transcript_files = {1}
    /\ last = Called("init", "None")
    /\ in_flight = [t \in Threads |-> Idle]
    /\ other_metadata = Absent
    /\ whisper = NoSegments
    /\ notes_lines = <<>>

ConcurrentNext ==
    \/ \E t \in Threads, req \in Requests : ReadStep(t, req)
    \/ \E t \in Threads : WriteStep(t)

ConcurrentSpec == ConcurrentInit /\ [][ConcurrentNext]_vars

\* ------------------------------------------- two regenerations of a meeting

\* WriteNotes that opens the notes file for appending.
WriteNotes_Appends(lines, version, notes_content) ==
    [n \in DOMAIN lines \cup {version} |->
        IF n = version
        THEN (IF n \in DOMAIN lines THEN lines[n] ELSE <<>>) \o notes_content
        ELSE lines[n]]

\* with open(notes_file_path, 'w') as f: f.write(notes_content)
WriteNotes(lines, version, notes_content) ==
    [n \in DOMAIN lines \cup {version} |->
        IF n = version THEN notes_content ELSE lines[n]]

\* A regeneration thread that has not started.
NotStarted == [pc |-> "idle", version |-> 0, notes_content |-> <<>>]

\* The meeting after the generation events of versions 1 to k, every notes
\* file with the line "a"; no regeneration has started.
RegenerationInit ==
    /\ \E k \in 1..MaxFiles :
            /\ notes_files = 1..k
            /\ metadata = Generated(k)
            /\ notes_lines = [n \in 1..k |-> <<"a">>]
    /\ transcript_files = {1}
    /\ last = Called("init", "None")
    /\ in_flight = [t \in Threads |-> NotStarted]
    /\ other_metadata = Absent
    /\ whisper = NoSegments

\* retry_notes_generation up to the call of the generator: the notes file
\* path is made from the notes files there are now.
CountNotesFiles(t) ==
    /\ in_flight[t].pc = "idle"
    /\ in_flight' = [in_flight EXCEPT
                        ![t] = [pc |-> "counted",
                                version |-> RetryVersion(notes_files),
                                notes_content |-> <<>>]]
    /\ UNCHANGED <<metadata, notes_files, transcript_files, last,
                   other_metadata, whisper, notes_lines>>

\* The generator returns notes_content, and retry_notes_generation writes it
\* to the notes file of the path made before; without notes_content nothing
\* is written and the regeneration ends with an error message.
WriteNotesFile(t, notes_content) ==
    /\ in_flight[t].pc = "counted"
    /\ IF notes_content # <<>>
       THEN /\ notes_files' = notes_files \cup {in_flight[t].version}
            /\ notes_lines' = WriteNotes(notes_lines, in_flight[t].version,
                                         notes_content)
            /\ in_flight' = [in_flight EXCEPT
                                ![t].pc = "written",
                                ![t].notes_content = notes_content]
       ELSE /\ UNCHANGED <<notes_files, notes_lines>>
            /\ in_flight' = [in_flight EXCEPT ![t].pc = "done"]
    /\ UNCHANGED <<metadata, transcript_files, last, other_metadata, whisper>>

\* regenerate_thread after retry_notes_generation gave notes:
\* update_version_metadata(..., is_default=True) for the notes file written.
RecordVersion(t) ==
    /\ in_flight[t].pc = "written"
    /\ \E w \in WriteOutcomes :
          metadata' = CreateOrUpdate(metadata,
                                     UpdaterInfo(in_flight[t].version, TRUE), w)
    /\ in_flight' = [in_flight EXCEPT ![t].pc = "done"]
    /\ UNCHANGED <<notes_files, transcript_files, last, other_metadata, whisper,
                   notes_lines>>

RegenerationNext ==
    \/ \E t \in Threads : CountNotesFiles(t)
    \/ \E t \in Threads, notes_content \in Contents : WriteNotesFile(t, notes_content)
    \/ \E t \in Threads : RecordVersion(t)

RegenerationSpec == RegenerationInit /\ [][RegenerationNext]_vars

\* ------------------------------------------------------ a second meeting id

\* The meeting id _get_all_meetings gives the transcript JSON file of
\* version 2: the meeting list has a second meeting under it.
OtherId == TranscriptMeetingId(TranscriptFileName(2))

\* file.startswith(prefix), part by part.
StartsWith(file, prefix) ==
    /\ Len(file) >= Len(prefix)
    /\ SubSeq(file, 1, Len(prefix)) = prefix

\* The versions of the notes files _auto_discover_metadata takes for
\* meeting_id: file.startswith(f"meeting_notes_{meeting_id}"); the version
\* number of each is what _v(\d+)\.md$ gives for the file.
NotesFilesOf(meeting_id, notes) ==
    {n \in notes : StartsWith(NotesFileName(n), <<"meeting_notes_">> \o meeting_id)}

\* The versions of the transcript files it takes:
\* file.startswith(f"transcript_{meeting_id}")
TranscriptFilesOf(meeting_id, transcripts) ==
    {n \in transcripts :
        StartsWith(TranscriptFileName(n), <<"transcript_">> \o meeting_id)}

\* get_metadata(meeting_id) for the second meeting of the list, which the
\* version panel calls when the user selects it.
GetMetadataOther ==
    /\ 2 \in transcript_files
    /\ \E g \in GetMetadataOutcomes(other_metadata,
                                    NotesFilesOf(OtherId, notes_files),
                                    TranscriptFilesOf(OtherId, transcript_files)) :
            /\ other_metadata' = g.persisted
            /\ last' = Called("get_metadata_other", g.kind)
    /\ UNCHANGED <<metadata, notes_files, transcript_files, in_flight, whisper,
                   notes_lines>>

\* The generation events of the meeting, and the user looking at the second
\* meeting of the list.
TwoMeetingsNext ==
    \/ ProcessRecording /\ Sequential
    \/ RegenerateNotes /\ Sequential
    \/ RetranscribeMeeting /\ Sequential
    \/ GetMetadataOther

TwoMeetingsSpec == Init /\ [][TwoMeetingsNext]_vars

\* -------------------------------------------- the loop over Whisper's segments

\* One turn of the loop of transcribe over enumerate(segments): the speaker
\* label of segment i, its speaker segment and the items of its words.
ConvertSegment(segment) ==
    LET i == whisper.i
        current_speaker == NextSpeaker(whisper.current_speaker, i)
        speaker_label == SpeakerLabel(current_speaker)
    IN  /\ i < MaxSegments
        /\ whisper' =
              [i |-> i + 1,
               current_speaker |-> current_speaker,
               speaker_labels |-> Append(whisper.speaker_labels, speaker_label),
               segment |-> segment,
               items |-> WordItems(segment, speaker_label)]
        /\ UNCHANGED <<metadata, notes_files, transcript_files, last, in_flight,
                       other_metadata, notes_lines>>

WhisperNext == \E segment \in Segments : ConvertSegment(segment)

WhisperSpec == Init /\ [][WhisperNext]_vars

\* ------------------------------- the items and the speaker segments, in full

\* The result has no segment yet.
IndexedInit ==
    /\ metadata = Absent
    /\ notes_files = {}
    /\ transcript_files = {}
    /\ last = Called("init", "None")
    /\ in_flight = [t \in Threads |-> Idle]
    /\ other_metadata = Absent
    /\ whisper = NoItems
    /\ notes_lines = <<>>

\* One pass of the loop over the segments, for a segment of words words: the
\* speaker segment is appended, then one item for every word, its index
\* going to the speaker segment.
ConvertSegmentItems(words) ==
    LET i == whisper.i
        current_speaker == NextSpeaker(whisper.current_speaker, i)
        speaker_label == SpeakerLabel(current_speaker)
    IN  /\ i < MaxIndexedSegments
        /\ whisper' =
              [i |-> i + 1,
               current_speaker |-> current_speaker,
               speaker_segments |->
                   Append(whisper.speaker_segments,
                          [speaker_label |-> speaker_label,
                           items |-> SegmentItems(whisper.item_index, words)]),
               items |-> whisper.items
                            \o [j \in 1..words |-> [speaker_label |-> speaker_label]],
               item_index |-> whisper.item_index + words]
        /\ UNCHANGED <<metadata, notes_files, transcript_files, last, in_flight,
                       other_metadata, notes_lines>>

IndexedNext == \E words \in 0..MaxIndexedWords : ConvertSegmentItems(words)

IndexedSpec == IndexedInit /\ [][IndexedNext]_vars

\* ------------------------------------------------- comparing notes versions

\* The meeting with the notes of versions 1 and 2 in the directory, recorded
\* or not yet; the files have any lines.
CompareInit ==
    /\ notes_files = {1, 2}
    /\ transcript_files = {1, 2}
    /\ metadata \in {Absent, Generated(2)}
    /\ notes_lines \in [notes_files -> Contents]
    /\ last = Called("init", "None")
    /\ in_flight = [t \in Threads |-> Idle]
    /\ other_metadata = Absent
    /\ whisper = NoSegments

CompareNext ==
    \/ CompareVersions /\ Sequential
    \/ CreateWithoutNotesPath /\ Sequential

CompareSpec == CompareInit /\ [][CompareNext]_vars

\* ----------------------------------- update_version_metadata, called direct

\* What a caller passes for is_default: nothing, True or False.
IsDefaultArguments == {<<>>, <<TRUE>>, <<FALSE>>}

\* The entry of key in the file cur, which a call replaces, if there is one.
Replaced(cur, key) ==
    IF IsRecord(cur) /\ key \in DOMAIN cur.versions THEN <<cur.versions[key]>>
    ELSE <<>>

\* update_version_metadata(version_manager, meeting_id, notes_path,
\* is_default=False) for the notes file of version version_num: an omitted
\* is_default is False, and goes into version_info as is_default and as
\* set_as_default.
UpdateVersionMetadataCall(version_num, given) ==
    LET is_default == IF given = <<>> THEN FALSE ELSE given[1]
    IN  \E w \in WriteOutcomes :
            /\ metadata' = CreateOrUpdate(metadata,
                                          UpdaterInfo(version_num, is_default), w)
            /\ last' = [Called("update_version_metadata", "metadata")
                            EXCEPT !.args = <<version_num>> \o given,
                                   !.replaced = Replaced(metadata, Str(version_num))]
            /\ UNCHANGED <<notes_files, transcript_files>>

UpdateVersionMetadata ==
    \E version_num \in VersionNums, given \in IsDefaultArguments :
        UpdateVersionMetadataCall(version_num, given)

\* The calls that record a version, direct and through
\* update_version_metadata, and the calls that change or delete one.
UpdaterNext ==
    \/ UpdateVersionMetadata /\ Sequential
    \/ CreateOrUpdateMetadata /\ Sequential
    \/ RenameVersion /\ Sequential
    \/ AddComments /\ Sequential
    \/ DeleteVersion /\ Sequential

UpdaterSpec == Init /\ [][UpdaterNext]_vars

\* ------------------------------------------------------------ properties

VersionKeys(md) == DOMAIN md.versions

\* The claims about a call read the step it makes: the file before it
\* (metadata), the file after it (metadata') and how it ended (last').
Returned(result) == last'.result = result

\* The step is a call of the method op.
Calls(op) == last'.op = op

\* C1: every persisted record with at least one version has exactly one
\* version with is_default true.
C1_ExactlyOneDefault ==
    IsRecord(metadata) /\ VersionKeys(metadata) # {}
        => Cardinality(DefaultKeys(metadata)) = 1

\* C2: every persisted record has at most one version with is_default true,
\* whatever version_info create_or_update_metadata was given.
C2_AtMostOneDefault ==
    IsRecord(metadata) => Cardinality(DefaultKeys(metadata)) <= 1

\* C3: in every persisted record latest_version is the greatest of the keys
\* of versions read as numbers.
C3_LatestIsNumericMax ==
    IsRecord(metadata) =>
        /\ VersionKeys(metadata) # {}
        /\ \E k \in VersionKeys(metadata) :
              /\ metadata.latest_version = ToInt(k)
              /\ \A j \in VersionKeys(metadata) : ToInt(j) <= ToInt(k)

\* A creation has left versions 2 and 10: the greater number is the lesser text.
C3_Witness ==
    /\ last.op = "create_or_update_metadata"
    /\ IsRecord(metadata)
    /\ VersionKeys(metadata) = {Str(2), Str(TwoDigitVersion)}
    /\ metadata.latest_version = TwoDigitVersion

\* C4, as claimed: delete_version on the only version of a record fails and
\* leaves the record as it was.
C4_OnlyVersionRefused ==
    [][\A n \in VersionNums :
        Calls("delete_version") /\ IsRecord(metadata)
            /\ VersionKeys(metadata) = {Str(n)} /\ DeleteVersionCall(n)
        => metadata' = metadata /\ ~Returned("None") /\ ~Returned("metadata")]_vars

\* C4, amended: delete_version on the only version of a record, when it
\* returns, has removed the whole record and returned None; it is
\* _delete_selected_version of the panel that refuses, with an error message
\* and the record left as it was, when the record has at most one version.
C4_OnlyVersionRemovedPanelRefuses ==
    [][\A n \in VersionNums :
        /\ Calls("delete_version") /\ IsRecord(metadata)
                /\ VersionKeys(metadata) = {Str(n)} /\ ~Returned("raise")
                /\ DeleteVersionCall(n)
            => metadata' = Absent /\ Returned("None")
        /\ Calls("_delete_selected_version") /\ IsRecord(metadata)
                /\ Cardinality(VersionKeys(metadata)) <= 1
                /\ DeleteSelectedVersionCall(n)
            => metadata' = metadata /\ Returned("Cannot delete the only version")]_vars

\* delete_version has removed the record with its only version, a default one.
C4_Witness ==
    /\ last.op = "delete_version"
    /\ last.result = "None"
    /\ last.was_default
    /\ metadata = Absent

\* C5: when delete_version removes the default version and a version
\* remains, the remaining version of the greatest number becomes default and
\* latest_version is that number.
C5_DeleteDefaultPromotesNumericMax ==
    [][\A n \in VersionNums :
        Calls("delete_version") /\ IsRecord(metadata)
            /\ Str(n) \in VersionKeys(metadata)
            /\ metadata.versions[Str(n)].is_default
            /\ VersionKeys(metadata) # {Str(n)}
            /\ Returned("metadata")
            /\ DeleteVersionCall(n)
        => /\ IsRecord(metadata')
           /\ VersionKeys(metadata') = VersionKeys(metadata) \ {Str(n)}
           /\ \E k \in VersionKeys(metadata') :
                /\ \A j \in VersionKeys(metadata') : ToInt(j) <= ToInt(k)
                /\ metadata'.versions[k].is_default
                /\ metadata'.latest_version = ToInt(k)]_vars

\* The default version was deleted and of the remaining 2 and 10 it is 10
\* that was made default.
C5_Witness ==
    /\ last.op = "delete_version"
    /\ last.was_default
    /\ last.result = "metadata"
    /\ IsRecord(metadata)
    /\ VersionKeys(metadata) = {Str(2), Str(TwoDigitVersion)}
    /\ DefaultKeys(metadata) = {Str(TwoDigitVersion)}

\* C6: set_default_version on a version of the record, in whatever state an
\* earlier set_default_version (or any other call) left it, leaves that
\* version and no other with is_default true; and a call for the version
\* that is already the one default changes nothing.
C6_SetDefaultLeavesExactlyThatVersion ==
    [][\A n \in VersionNums :
        Calls("set_default_version") /\ IsRecord(metadata)
            /\ Str(n) \in VersionKeys(metadata)
            /\ Returned("metadata")
            /\ SetDefaultVersionCall(n)
        => /\ IsRecord(metadata')
           /\ VersionKeys(metadata') = VersionKeys(metadata)
           /\ \A k \in VersionKeys(metadata') :
                metadata'.versions[k].is_default = (k = Str(n))
           /\ (DefaultKeys(metadata) = {Str(n)} => metadata' = metadata)]_vars

\* set_default_version has made version 2 the default of a record with
\* several versions.
C6_Witness ==
    /\ last.op = "set_default_version"
    /\ last.result = "metadata"
    /\ IsRecord(metadata)
    /\ Cardinality(VersionKeys(metadata)) >= 2
    /\ DefaultKeys(metadata) = {Str(2)}

\* C7: set_default_version for a version that the record does not have fails
\* and leaves the is_default flags as they were.
C7_AbsentVersionLeavesFlags ==
    [][\A n \in VersionNums :
        Calls("set_default_version") /\ IsRecord(metadata)
            /\ Str(n) \notin VersionKeys(metadata)
            /\ SetDefaultVersionCall(n)
        => /\ ~Returned("metadata")
           /\ IsRecord(metadata') => DefaultKeys(metadata') = DefaultKeys(metadata)]_vars

\* The fields of an entry other than field are the same in a and b.
SameBut(a, b, field) ==
    \A f \in DOMAIN a \ {field} : a[f] = b[f]

\* The record after is the record before with one field of one entry set.
OnlyFieldSet(before, after, key, field, value) ==
    /\ IsRecord(after)
    /\ after.latest_version = before.latest_version
    /\ VersionKeys(after) = VersionKeys(before)
    /\ \A k \in VersionKeys(before) \ {key} : after.versions[k] = before.versions[k]
    /\ after.versions[key][field] = value
    /\ SameBut(before.versions[key], after.versions[key], field)

\* C8: rename_version changes the name of the version and add_comments its
\* comments, and nothing else of the persisted record.
C8_RenameAndCommentChangeOneField ==
    [][\A n \in EditedNums :
        /\ \A new_name \in Names :
            Calls("rename_version") /\ IsRecord(metadata)
                /\ Str(n) \in VersionKeys(metadata) /\ Returned("metadata")
                /\ RenameVersionCall(n, new_name)
            => OnlyFieldSet(metadata, metadata', Str(n), "name", new_name)
        /\ \A comments \in Comments :
            Calls("add_comments") /\ IsRecord(metadata)
                /\ Str(n) \in VersionKeys(metadata) /\ Returned("metadata")
                /\ AddCommentsCall(n, comments)
            => OnlyFieldSet(metadata, metadata', Str(n), "comments", comments)]_vars

\* A commented default version 1 of a record with several versions was renamed.
C8_Witness ==
    /\ last.op = "rename_version"
    /\ last.result = "metadata"
    /\ IsRecord(metadata)
    /\ Cardinality(VersionKeys(metadata)) >= 2
    /\ Str(1) \in VersionKeys(metadata)
    /\ metadata.versions[Str(1)].name \in Names
    /\ metadata.versions[Str(1)].comments \in Comments
    /\ metadata.versions[Str(1)].is_default

\* C9: rename_version and add_comments for a version that the record does
\* not have fail, in a way the caller can tell from success, and leave the
\* persisted record as it was.
C9_AbsentVersionFails ==
    [][\A n \in EditedNums :
        /\ \A new_name \in Names :
            Calls("rename_version") /\ IsRecord(metadata)
                /\ Str(n) \notin VersionKeys(metadata)
                /\ RenameVersionCall(n, new_name)
            => metadata' = metadata /\ ~Returned("metadata")
        /\ \A comments \in Comments :
            Calls("add_comments") /\ IsRecord(metadata)
                /\ Str(n) \notin VersionKeys(metadata)
                /\ AddCommentsCall(n, comments)
            => metadata' = metadata /\ ~Returned("metadata")]_vars

\* C10: get_default_version returns a version marked default, or
\* latest_version when none is marked, and returns None only when the meeting
\* has no record that can be read and no file to discover a record from.
C10_DefaultVersionOrNoneWithoutRecord ==
    [][\A ver \in Keys :
        Calls("get_default_version") /\ GetDefaultVersionCall(ver) =>
            /\ Returned("version") /\ IsRecord(metadata) =>
                    IF DefaultKeys(metadata) # {}
                    THEN ver \in DefaultKeys(metadata)
                    ELSE ToInt(ver) = metadata.latest_version
            /\ Returned("None") =>
                    /\ ~IsRecord(metadata)
                    /\ notes_files = {}
                    /\ transcript_files = {}]_vars

\* C11: delete_version, and the panel's handler that calls it, leave the
\* notes files and the transcript files of the directory as they were,
\* whether the version deleted was the last of the record or not.
C11_DeleteKeepsArtifactFiles ==
    [][Calls("delete_version") \/ Calls("_delete_selected_version")
        => notes_files' = notes_files /\ transcript_files' = transcript_files]_vars

\* delete_version has removed the record with its last version, and both
\* notes files and the transcript are still in the directory.
C11_Witness ==
    /\ last.op = "delete_version"
    /\ last.result = "None"
    /\ metadata = Absent
    /\ notes_files = {1, 2}
    /\ transcript_files # {}

\* C12: a version removed by delete_version does not come back into the
\* versions of the meeting by a get_metadata, get_default_version,
\* set_default_version, rename_version or add_comments call (here: the call
\* that follows the deletion).
C12_DeletedVersionStaysDeleted ==
    [][/\ last.deleted # <<>>
       /\ \/ Calls("get_metadata")
          \/ Calls("get_default_version")
          \/ Calls("set_default_version")
          \/ Calls("rename_version")
          \/ Calls("add_comments")
       => last.deleted \notin VersionKeys(metadata')]_vars

\* C13: get_metadata for a meeting with notes files and no metadata file,
\* each write of the record succeeding, rebuilds one version per notes file,
\* numbered by its suffix (1 without suffix), with version 1 the default and
\* no other, the same record in whatever order the directory lists the
\* files; for the unsuffixed and the _v2 file: versions 1 and 2 exactly.
C13_DiscoveryRebuildsOneVersionPerSuffix ==
    [][Calls("get_metadata") /\ metadata = Absent /\ notes_files # {}
            /\ metadata' \in Rebuilt(notes_files)
            /\ GetMetadata
        => /\ Returned("discovered")
           /\ VersionKeys(metadata') = {Str(n) : n \in notes_files}
           /\ \A n \in notes_files :
                /\ metadata'.versions[Str(n)].is_default = (n = 1)
                /\ metadata'.versions[Str(n)].notes_path = NotesPath(n)
           /\ Rebuilt(notes_files) = {metadata'}
           /\ notes_files = {1, 2} =>
                /\ VersionKeys(metadata') = {Str(1), Str(2)}
                /\ DefaultKeys(metadata') = {Str(1)}]_vars

\* get_metadata has rebuilt the record from the unsuffixed and the _v2 notes
\* file: versions 1 and 2, version 1 the default.
C13_Witness ==
    /\ last.op = "get_metadata"
    /\ last.result = "discovered"
    /\ notes_files = {1, 2}
    /\ IsRecord(metadata)
    /\ VersionKeys(metadata) = {Str(1), Str(2)}
    /\ DefaultKeys(metadata) = {Str(1)}

\* C14: when the record that the generation events have written is lost, the
\* record get_metadata rebuilds from the notes files on disk has the same
\* version numbers, and every entry of it differs from the lost one in name
\* and comments at most.  (The lost record is one with a single default
\* version and a version for each notes file.)
C14_RebuildLosesNamesAndCommentsOnly ==
    /\ IsRecord(metadata)
    /\ last.op \in {"_process_recording", "_regenerate_notes", "_retranscribe_meeting"}
    /\ last.result = "metadata"
    /\ VersionKeys(metadata) = {Str(n) : n \in notes_files}
    /\ Cardinality(DefaultKeys(metadata)) = 1
    => \A rebuilt \in Rebuilt(notes_files) :
            /\ VersionKeys(rebuilt) = VersionKeys(metadata)
            /\ \A k \in VersionKeys(metadata) :
                    \A f \in DOMAIN metadata.versions[k] \ {"name", "comments"} :
                        rebuilt.versions[k][f] = metadata.versions[k][f]

\* C17: a note regeneration or a re-transcription that writes a notes file
\* writes it under a version number that no notes file of the meeting has
\* yet, so that no earlier notes file (and with it no earlier entry of the
\* record) is overwritten.
C17_GenerationNeverOverwrites ==
    [][/\ Calls("_regenerate_notes") /\ Returned("metadata")
            => RetryVersion(notes_files) \notin notes_files
       /\ Calls("_retranscribe_meeting")
                /\ (Returned("metadata") \/ Returned("raise"))
            => RetranscribeVersion(transcript_files) \notin notes_files]_vars

\* C18: a generation event whose note generation fails (the generator gives
\* no notes) adds no entry to the record and leaves no notes file in the
\* directory.
C18_FailedGenerationLeavesNothing ==
    [][\/ Calls("_process_recording") /\ Returned("None")
       \/ Calls("_regenerate_notes") /\ Returned("None")
       \/ Calls("_retranscribe_meeting") /\ Returned("raise")
       => notes_files' = notes_files /\ metadata' = metadata]_vars

\* The raw result has no transcript text: the key that holds it, or one on
\* the way to it, is missing.
NoTranscriptText(engine, raw) ==
    /\ raw.job_status = "COMPLETED"
    /\ IF engine = "aws"
       THEN \/ "results" \notin raw.keys
            \/ "transcripts" \notin raw.keys
            \/ Len(raw.transcripts) = 0
            \/ "transcript" \notin raw.transcripts[1].keys
       ELSE "text" \notin raw.keys

\* C19: for a raw result without transcript text, of AWS or of Whisper, the
\* engine's transcribe does not raise and gives the placeholder transcript,
\* whose text is the sentinel, and _process_recording, the generator having
\* given notes, records a version.
C19_NoTextGivesPlaceholderAndVersion ==
    [][\A engine \in Engines : \A raw \in RawResults(engine) :
        Calls("_process_recording") /\ NoTranscriptText(engine, raw)
            /\ ProcessRecordingCall(engine, raw, TRUE)
        => /\ Transcribe(engine, raw) = Placeholder
           /\ Returned("metadata")]_vars

\* C20: the meeting id resolved from every notes file and every transcript
\* JSON file of the directory, versioned or not, is the timestamp without
\* the version suffix.
C20_VersionedFilesResolveToTheMeeting ==
    /\ \A n \in notes_files : NotesMeetingId(NotesFileName(n)) = Timestamp
    /\ \A n \in transcript_files :
            TranscriptMeetingId(TranscriptFileName(n)) = Timestamp

\* C15: the mutating methods are not serialized.  When two threads have read
\* the same record and one has written its change, the write of the other
\* puts into the metadata file the record it read with its own change alone:
\* the change of the first writer is gone from the file.
C15_FirstWriterUpdateLost ==
    [][\A t \in Threads : \A u \in Threads \ {t} :
        /\ in_flight[t].pc = "read"
        /\ in_flight[u].wrote
        /\ in_flight[u].metadata = in_flight[t].metadata
        /\ in_flight'[t].wrote
        /\ WriteStep(t)
        => metadata' = ChangedRecord(in_flight[t], in_flight[t].metadata)]_vars

\* Both threads read the record of the processed meeting before either
\* wrote; the user's rename returned the record, then the worker recorded
\* version 2: the file has version 2 and version 1 under its old name.
C15_Witness ==
    /\ in_flight["ui"].pc = "done"
    /\ in_flight["ui"].op = "rename_version"
    /\ in_flight["ui"].wrote
    /\ in_flight["worker"].wrote
    /\ in_flight["worker"].op = "create_or_update_metadata"
    /\ in_flight["worker"].metadata = in_flight["ui"].metadata
    /\ in_flight["ui"].metadata = Generated(1)
    /\ IsRecord(metadata)
    /\ VersionKeys(metadata) = {Str(1), Str(2)}
    /\ metadata.versions[Str(1)].name = "Version 1"

\* C16: operations on different meeting ids are independent.  When the
\* recording of the meeting has been processed and transcribed again, the
\* record of the second meeting id is the one it has when no operation of
\* the meeting has run: with no file of its own in the notes directory, none
\* (a metadata file that a failed write left unparsable aside).
C16_OtherMeetingRecordIndependent ==
    /\ IsRecord(metadata) /\ VersionKeys(metadata) = {Str(1), Str(2)}
    /\ other_metadata.status # "corrupt"
    => other_metadata \in
        {g.persisted : g \in GetMetadataOutcomes(Absent, NotesFilesOf(OtherId, {}),
                                                 TranscriptFilesOf(OtherId, {}))}

\* C21: the speaker labels of a Whisper result change every 3 segments:
\* segments i and j have the same label exactly when i div 3 and j div 3
\* have the same parity.
C21_SpeakerRotatesEveryThreeSegments ==
    \A a \in DOMAIN whisper.speaker_labels : \A b \in DOMAIN whisper.speaker_labels :
        (whisper.speaker_labels[a] = whisper.speaker_labels[b])
        <=> (((a - 1) \div 3) % 2 = ((b - 1) \div 3) % 2)

\* Seven segments converted: 0-2 under one label, 3-5 under the other,
\* segment 6 under the first again.
C21_Witness ==
    /\ whisper.i = 7
    /\ whisper.speaker_labels[1] = whisper.speaker_labels[3]
    /\ whisper.speaker_labels[4] = whisper.speaker_labels[6]
    /\ whisper.speaker_labels[1] # whisper.speaker_labels[4]
    /\ whisper.speaker_labels[7] = whisper.speaker_labels[1]

\* C22: the word intervals of a segment with at least one word partition
\* the segment evenly: the first word starts at the segment start, each
\* word ends where the next starts, every word lasts (end - start) /
\* word_count and the last word ends at the segment end.
C22_WordsPartitionSegmentEvenly ==
    LET segment == whisper.segment
        items == whisper.items
        n == Len(items)
    IN  n >= 1 =>
            /\ TimeOf(items[1].start_time) = segment.start
            /\ \A k \in 1..(n - 1) : items[k].end_time = items[k + 1].start_time
            /\ \A k \in 1..n :
                    Fl(TimeOf(items[k].end_time) - TimeOf(items[k].start_time), 1)
                        = WordDuration(segment)
            /\ TimeOf(items[n].end_time) = segment.end

\* The lines of a diff under a tag.
LinesTagged(diff, tag) == {diff[n].line : n \in {n \in DOMAIN diff : diff[n].tag = tag}}

\* C23: compare_versions(m, 1, 2) and compare_versions(m, 2, 1) give inverse
\* diffs: the lines added in one are the lines removed in the other.
C23_SwappedCompareGivesInverseDiff ==
    [][\A v \in {1, 2} : \A w \in {1, 2} \ {v} :
        /\ Calls("compare_versions")
        /\ Returned("diff")
        /\ last'.args = <<v, w>>
        /\ CompareVersionsCall(v, w)
        => LET swapped == Compared(metadata', notes_files, notes_lines, w, v).diff
           IN  /\ LinesTagged(last'.diff, "+") = LinesTagged(swapped, "-")
               /\ LinesTagged(last'.diff, "-") = LinesTagged(swapped, "+")]_vars

\* C24: compare_versions returns None, and no diff, when the record lacks
\* one of the versions or one of them has no notes_path; it leaves the
\* record of the meeting as it is.
C24_CompareFailsWithoutVersionOrNotesPath ==
    [][\A v \in VersionNums : \A w \in VersionNums :
        /\ Calls("compare_versions")
        /\ metadata.status # "absent"
        /\ last'.args = <<v, w>>
        /\ CompareVersionsCall(v, w)
        => /\ metadata' = metadata
           /\ (\E n \in {v, w} :
                    \/ Str(n) \notin VersionKeys(metadata)
                    \/ metadata.versions[Str(n)].notes_path = "None")
               => Returned("None") /\ last'.diff = <<>> ]_vars

\* Version 2 has been recorded without notes_path, and the comparison of
\* versions 1 and 2 has returned None.
C24_Witness ==
    /\ last.op = "compare_versions"
    /\ last.args = <<1, 2>>
    /\ last.result = "None"
    /\ IsRecord(metadata)
    /\ VersionKeys(metadata) = {Str(1), Str(2)}
    /\ metadata.versions[Str(2)].notes_path = "None"
C26_UnparsableRecordIsRediscovered ==
    [][/\ Calls("get_metadata")
       /\ metadata.status = "corrupt"
       /\ notes_files # {}
       /\ GetMetadata
       => IsRecord(metadata') /\ ~Returned("None")]_vars
\* C27: create_or_update_metadata surfaces a failed write: when the file is
\* not left as the updated record, the call does not return the record.
C27_FailedWriteIsSurfaced ==
    [][\A vi \in VersionInfos :
        /\ Calls("create_or_update_metadata")
        /\ Returned("metadata")
        /\ CreateOrUpdateMetadataCall(vi)
        => metadata' = UpdatedMetadata(metadata, vi)]_vars
\* C28: a write of the record is all or nothing: the metadata file is never
\* left empty or truncated.
C28_RecordNeverTruncated == metadata.status # "corrupt"

\* C29: get_metadata for a meeting with no metadata file and no notes or
\* transcript file returns None and creates no metadata file.
C29_NothingToDiscoverGivesNone ==
    [][/\ Calls("get_metadata")
       /\ metadata = Absent
       /\ notes_files = {} /\ transcript_files = {}
       /\ GetMetadata
       => Returned("None") /\ metadata' = Absent]_vars

\* get_metadata has returned None for the meeting without any file.
C29_Witness ==
    /\ last.op = "get_metadata"
    /\ last.result = "None"
    /\ metadata = Absent
    /\ notes_files = {} /\ transcript_files = {}

\* C30: a metadata file never holds a record without versions.
C30_RecordHasAVersion == IsRecord(metadata) => VersionKeys(metadata) # {}

\* The deletion of the last version has removed the metadata file.
C30_Witness ==
    /\ last.op = "delete_version"
    /\ last.deleted # <<>>
    /\ metadata = Absent

\* ------------------------------------------------------------------- C31

\* C31: a create_or_update_metadata call whose version_info asks for
\* set_as_default, made direct or by update_version_metadata with is_default
\* True, and whose write succeeds, leaves a record in which the written
\* version is the default one and no other version is.
C31_SetAsDefaultMakesWrittenVersionOnlyDefault ==
    [][/\ \A vi \in VersionInfos :
             Calls("create_or_update_metadata")
             /\ "set_as_default" \in vi.keys
             /\ metadata' = UpdatedMetadata(metadata, vi)
             => DefaultKeys(metadata') = {Str(vi.version_num)}
       /\ \A n \in VersionNums :
             Calls("update_version_metadata")
             /\ last'.args = <<n, TRUE>>
             /\ metadata' = UpdatedMetadata(metadata, UpdaterInfo(n, TRUE))
             => DefaultKeys(metadata') = {Str(n)}]_vars

\* An update_version_metadata call with is_default True has left three
\* versions of which the greatest, and no other, is the default.
C31_Witness ==
    /\ last.op = "update_version_metadata"
    /\ last.args = <<TwoDigitVersion, TRUE>>
    /\ IsRecord(metadata)
    /\ Cardinality(VersionKeys(metadata)) = 3
    /\ DefaultKeys(metadata) = {Str(TwoDigitVersion)}

\* ------------------------------------------------------------------- C32

\* C32: a version recorded by update_version_metadata without an is_default
\* argument, the write succeeding, is default exactly when its number is 1;
\* so the first version of a new meeting, version 1, is default.
C32_VersionOneDefaultsToDefault ==
    [][\A n \in VersionNums :
          Calls("update_version_metadata")
          /\ last'.args = <<n>>
          /\ metadata' = UpdatedMetadata(metadata, UpdaterInfo(n, FALSE))
          => (metadata'.versions[Str(n)].is_default <=> n = 1)]_vars

\* ------------------------------------------------------------------- C33

\* C33: the speaker label of segment i is the label with index
\* (i div 3) mod 2, so segment 0 is labelled spk_0.
C33_LabelIsSegmentIndexDivThreeModTwo ==
    \A a \in DOMAIN whisper.speaker_labels :
        whisper.speaker_labels[a] = SpeakerLabel(((a - 1) \div 3) % 2)

\* ------------------------------------------------------------------- C34

\* The item index lists of the speaker segments, one after the other.
RECURSIVE AllItemIndices(_)
AllItemIndices(speaker_segments) ==
    IF speaker_segments = <<>> THEN <<>>
    ELSE AllItemIndices(SubSeq(speaker_segments, 1, Len(speaker_segments) - 1))
            \o speaker_segments[Len(speaker_segments)].items

\* C34: the item index lists of the speaker segments, taken in segment
\* order, are exactly 0, 1, ..., len(items) - 1, and every item has the
\* speaker label of the segment that refers to it.
C34_SegmentItemListsPartitionItems ==
    /\ AllItemIndices(whisper.speaker_segments)
          = [n \in 1..Len(whisper.items) |-> n - 1]
    /\ \A s \in DOMAIN whisper.speaker_segments :
          \A j \in DOMAIN whisper.speaker_segments[s].items :
              LET index == whisper.speaker_segments[s].items[j]
              IN  /\ index + 1 \in DOMAIN whisper.items
                  /\ whisper.items[index + 1].speaker_label
                        = whisper.speaker_segments[s].speaker_label

\* Four segments converted, the second without a word: the items of the
\* first three have one label and the item of the fourth, index 3, the other.
C34_Witness ==
    /\ whisper.i = 4
    /\ whisper.speaker_segments[1].items = <<0, 1>>
    /\ whisper.speaker_segments[2].items = <<>>
    /\ whisper.speaker_segments[3].items = <<2>>
    /\ whisper.speaker_segments[4].items = <<3>>
    /\ whisper.items[3].speaker_label # whisper.items[4].speaker_label

\* ------------------------------------------------------------------- C35

\* C35: the speakers of the result are exactly the labels that occur on its
\* speaker segments, for every number of segments.
C35_SpeakersAreTheLabelsThatOccur ==
    Speakers(whisper.speaker_segments)
        = {whisper.speaker_segments[s].speaker_label :
              s \in DOMAIN whisper.speaker_segments}

\* ------------------------------------------------------------------- C36

\* C36: two regenerations of a meeting that both count the notes files
\* before either writes its file have the same version number; the second
\* to write replaces the notes of the first in the same file, no file is
\* added, and the second to record replaces the metadata entry of the first.
C36_ConcurrentRegenerationsShareVersion ==
    [][\A t \in Threads : \A u \in Threads \ {t} :
          /\ in_flight[u].pc = "counted" /\ in_flight'[t].pc = "counted"
             => in_flight'[t].version = in_flight[u].version
          /\ in_flight[t].pc = "counted" /\ in_flight'[t].pc = "written"
             /\ in_flight[u].pc \in {"written", "done"}
             /\ in_flight[u].notes_content # <<>>
             /\ in_flight[u].version = in_flight[t].version
             => /\ notes_files' = notes_files
                /\ NotesFileName(in_flight[t].version)
                      = NotesFileName(in_flight[u].version)
                /\ notes_lines[in_flight[t].version] = in_flight[u].notes_content
                /\ notes_lines'[in_flight[t].version] = in_flight'[t].notes_content
          /\ in_flight[t].pc = "written" /\ in_flight'[t].pc = "done"
             /\ in_flight[u].pc = "done"
             /\ in_flight[u].notes_content # <<>>
             /\ in_flight[u].version = in_flight[t].version
             /\ IsRecord(metadata) /\ IsRecord(metadata')
             /\ Str(in_flight[u].version) \in VersionKeys(metadata)
             => VersionKeys(metadata') = VersionKeys(metadata)]_vars

\* Both regenerations of the meeting with versions 1 and 2 have ended with
\* version 3: there is one more notes file, one more version, and the notes
\* of the thread ui, which differ from those of the worker, are in no file.
C36_Witness ==
    /\ \A t \in Threads : in_flight[t].pc = "done" /\ in_flight[t].version = 3
    /\ in_flight["ui"].notes_content # <<>>
    /\ in_flight["worker"].notes_content # <<>>
    /\ notes_files = {1, 2, 3}
    /\ IsRecord(metadata) /\ VersionKeys(metadata) = {Str(1), Str(2), Str(3)}
    /\ \A n \in notes_files : notes_lines[n] # in_flight["ui"].notes_content
    /\ notes_lines[3] = in_flight["worker"].notes_content

\* ------------------------------------------------------------------- C37

\* C37: get_metadata returns, a record or None, for every content of the
\* directory and every state of the metadata file; so it does for a meeting
\* of which the directory has transcript files and no notes file.
C37_GetMetadataReturns ==
    last.op = "get_metadata" /\ notes_files = {}
        => last.result \in {"metadata", "discovered", "None"}

\* ------------------------------------------------------------------- C38

\* The entry of key is the one a creation without name and comments makes,
\* and, when set_as_default is not asked for, every other entry of the
\* record before is in the record after as it was.
EntryReplaced(before, after, key, notes_path, set_as_default) ==
    /\ VersionKeys(after) = VersionKeys(before)
    /\ after.versions[key].name = "Version " \o KeyText(key)
    /\ after.versions[key].comments = ""
    /\ after.versions[key].notes_path = notes_path
    /\ ~set_as_default
          => \A k \in VersionKeys(before) \ {key} :
                after.versions[k] = before.versions[k]

\* C38: create_or_update_metadata for a version the record has, made direct
\* or by update_version_metadata, the write succeeding, replaces the entry:
\* its name is 'Version n' and its comments are empty again; without
\* set_as_default every other entry stays as it was.
C38_ExistingEntryIsReplacedWhole ==
    [][/\ \A vi \in VersionInfos :
             Calls("create_or_update_metadata")
             /\ IsRecord(metadata)
             /\ Str(vi.version_num) \in VersionKeys(metadata)
             /\ metadata' = UpdatedMetadata(metadata, vi)
             => EntryReplaced(metadata, metadata', Str(vi.version_num),
                              vi.notes_path, "set_as_default" \in vi.keys)
       /\ \A n \in VersionNums : \A d \in BOOLEAN :
             Calls("update_version_metadata")
             /\ (last'.args = <<n, d>> \/ (~d /\ last'.args = <<n>>))
             /\ IsRecord(metadata)
             /\ Str(n) \in VersionKeys(metadata)
             /\ metadata' = UpdatedMetadata(metadata, UpdaterInfo(n, d))
             => EntryReplaced(metadata, metadata', Str(n), NotesPath(n), d)]_vars

\* update_version_metadata without is_default has replaced the entry of
\* version 1, which was renamed and commented, beside another version.
C38_Witness ==
    /\ last.op = "update_version_metadata"
    /\ last.args = <<1>>
    /\ last.replaced # <<>>
    /\ last.replaced[1].name \in Names
    /\ last.replaced[1].comments \in Comments
    /\ IsRecord(metadata)
    /\ Cardinality(VersionKeys(metadata)) >= 2
    /\ metadata.versions[Str(1)].name = "Version 1"
    /\ metadata.versions[Str(1)].comments = ""

\* ------------------------------------------------------------------- C39

\* C39: a delete_version that removes a version which is not default leaves
\* is_default of every remaining version as it was; a delete_version of a
\* version the record does not have returns the record and leaves the file
\* as it was, whatever a write would do.
C39_DeleteKeepsOtherDefaultFlags ==
    [][\A n \in VersionNums :
          Calls("delete_version") /\ IsRecord(metadata) /\ DeleteVersionCall(n)
          => /\ Str(n) \in VersionKeys(metadata)
                /\ ~metadata.versions[Str(n)].is_default
                /\ IsRecord(metadata')
                /\ Str(n) \notin VersionKeys(metadata')
                => /\ VersionKeys(metadata') = VersionKeys(metadata) \ {Str(n)}
                   /\ \A k \in VersionKeys(metadata') :
                         metadata'.versions[k].is_default
                            = metadata.versions[k].is_default
             /\ Str(n) \notin VersionKeys(metadata)
                => metadata' = metadata /\ Returned("metadata")]_vars

\* delete_version has removed the greatest version, which was not default:
\* of the two that remain version 1 is still the default and the latest,
\* version 2, is still not.
C39_Witness ==
    /\ last.op = "delete_version"
    /\ last.deleted = Str(TwoDigitVersion)
    /\ ~last.was_default
    /\ IsRecord(metadata)
    /\ VersionKeys(metadata) = {Str(1), Str(2)}
    /\ DefaultKeys(metadata) = {Str(1)}

====
